---- MODULE Spec2Model ----
(***************************************************************************)
(* Nexus request-log usage exporter: src/src/utils/exporter.py and the     *)
(* /metrics route of src/src/main.py.                                      *)
(*                                                                         *)
(* Time is counted in ticks of half a second since 2024-01-01 00:00:00, so *)
(* that datetime.now() can fall between two whole seconds while the        *)
(* timestamps of log lines are whole seconds.  A log line is a record of   *)
(* what the code reads from its text: the groups of the first LOG_PATTERN  *)
(* match (frag), the result of line.split() (parts), the result of         *)
(* line.split('"') with every segment split on whitespace and every word   *)
(* split on "/" (segs), and the flag strings occurring in it (subs).       *)
(***************************************************************************)
EXTENDS Integers, Sequences, FiniteSets, TLC

\* ------------------------------------------------------------------------
\* Bounds of the model
\* ------------------------------------------------------------------------
MaxLines == 2        \* lines written to the log directory, all files together

\* ------------------------------------------------------------------------
\* Calendar (datetime, timedelta), year 2024
\* ------------------------------------------------------------------------
TicksPerSec == 2
SecsPerMin == 60
MinsPerHour == 60
HoursPerDay == 24
Year == 2024

HourTicks == MinsPerHour * SecsPerMin * TicksPerSec
DayTicks == HoursPerDay * HourTicks

MonthNames == <<"Jan", "Feb", "Mar", "Apr", "May", "Jun",
                "Jul", "Aug", "Sep", "Oct", "Nov", "Dec">>

\* MONTHS: the table month abbreviation -> month number; a partial function
MONTHS == [n \in {MonthNames[i] : i \in 1..12} |->
             CHOOSE i \in 1..12 : MonthNames[i] = n]

DaysIn == <<31, 29, 31, 30, 31, 30, 31, 31, 30, 31, 30, 31>>

RECURSIVE DaysBefore(_)
DaysBefore(m) == IF m = 1 THEN 0 ELSE DaysBefore(m - 1) + DaysIn[m - 1]

\* datetime(year, month, day, hh, mm, ss) as ticks; ValueError when a field
\* is out of range
DateTimeOk(y, m, d, hh, mm, ss) ==
    /\ y = Year /\ m \in 1..12 /\ d \in 1..DaysIn[m]
    /\ hh \in 0..(HoursPerDay - 1) /\ mm \in 0..(MinsPerHour - 1)
    /\ ss \in 0..(SecsPerMin - 1)

DateTime(y, m, d, hh, mm, ss) ==
    ((((DaysBefore(m) + d - 1) * HoursPerDay + hh) * MinsPerHour + mm)
        * SecsPerMin + ss) * TicksPerSec

\* datetime.date(): the day number of an instant
DateOf(t) == t \div DayTicks

\* datetime.hour
HourOf(t) == (t \div HourTicks) % HoursPerDay

\* date.strftime("%Y-%m-%d"): zero padded, so a triple <<year, month, day>>
\* compared field by field orders as the string does
StrfDate(n) ==
    LET m == CHOOSE k \in 1..12 : DaysBefore(k) <= n /\ n < DaysBefore(k) + DaysIn[k]
    IN  <<Year, m, n - DaysBefore(m) + 1>>

\* str.__lt__ on two formatted dates
DateStrLess(a, b) ==
    \/ a[1] < b[1]
    \/ a[1] = b[1] /\ a[2] < b[2]
    \/ a[1] = b[1] /\ a[2] = b[2] /\ a[3] < b[3]

\* sorted(dates)
RECURSIVE SortedDates(_)
SortedDates(S) ==
    IF S = {} THEN <<>>
    ELSE LET lo == CHOOSE a \in S : \A b \in S \ {a} : DateStrLess(a, b)
         IN  <<lo>> \o SortedDates(S \ {lo})

\* ------------------------------------------------------------------------
\* Exceptions and Counter
\* ------------------------------------------------------------------------
NoExc == [type |-> "", msg |-> <<>>]
KeyErrorOf(k) == [type |-> "KeyError", msg |-> <<"'", k, "'">>]
IndexErrorExc == [type |-> "IndexError", msg |-> <<"list index out of range">>]
ValueErrorExc(text) == [type |-> "ValueError", msg |-> text]

\* collections.Counter: the keys in insertion order, each with its count
EmptyCounter == <<>>

CHas(c, k) == \E i \in 1..Len(c) : c[i][1] = k

CGet(c, k) == IF CHas(c, k) THEN c[CHOOSE i \in 1..Len(c) : c[i][1] = k][2] ELSE 0

\* c[k] += 1
CInc(c, k) ==
    IF CHas(c, k)
    THEN [i \in 1..Len(c) |-> IF c[i][1] = k THEN <<k, c[i][2] + 1>> ELSE c[i]]
    ELSE Append(c, <<k, 1>>)

RECURSIVE CSum(_)
CSum(c) == IF c = <<>> THEN 0 ELSE c[1][2] + CSum(Tail(c))

\* ------------------------------------------------------------------------
\* Log lines
\* ------------------------------------------------------------------------
W(s) == <<s>>                       \* a word holding no "/"
Flag == "SQLI_ATTEMPT"

InWindowFrag == <<31, "Jan", 2024, 23, 59, 59>>
AtCutoffFrag == <<31, "Jan", 2024, 23, 30, 0>>
BadMonthFrag == <<31, "Foo", 2024, 23, 59, 59>>

RepoPath == <<"", "repository", "maven-releases", "foo">>
SvcPath == <<"", "service", "rest", "v1", "status">>
PlainPath == <<"", "index.html">>
Http == <<"HTTP", "1.1">>

\* 10.0.0.1 - alice [31/Jan/2024:23:59:59 +0000] "GET /repository/maven-releases/foo HTTP/1.1" 200 1234
FullLine ==
    [frag |-> InWindowFrag,
     parts |-> <<"10.0.0.1", "-", "alice", "[31/Jan/2024:23:59:59", "+0000]",
                 "<GET", "/repository/maven-releases/foo", "HTTP/1.1>", "200", "1234">>,
     segs |-> <<<<W("10.0.0.1"), W("-"), W("alice")>>,
                <<W("GET"), RepoPath, Http>>,
                <<W("200"), W("1234")>>>>,
     subs |-> {}]

\* 10.0.0.2 - bob [31/Jan/2024:23:30:00 +0000] "GET /service/rest/v1/status HTTP/1.1" 404 SQLI_ATTEMPT
EdgeLine ==
    [frag |-> AtCutoffFrag,
     parts |-> <<"10.0.0.2", "-", "bob", "[31/Jan/2024:23:30:00", "+0000]",
                 "<GET", "/service/rest/v1/status", "HTTP/1.1>", "404", "SQLI_ATTEMPT">>,
     segs |-> <<<<W("10.0.0.2"), W("-"), W("bob")>>,
                <<W("GET"), SvcPath, Http>>,
                <<W("404"), W("SQLI_ATTEMPT")>>>>,
     subs |-> {Flag}]

\* a line holding no timestamp fragment
NoStampLine ==
    [frag |-> <<>>,
     parts |-> <<"java.lang.IllegalStateException">>,
     segs |-> <<<<W("java.lang.IllegalStateException")>>>>,
     subs |-> {}]

\* 10.0.0.1 - alice [31/Foo/2024:23:59:59 +0000] "GET /index.html HTTP/1.1" 200 1234
BadMonthLine ==
    [frag |-> BadMonthFrag,
     parts |-> <<"10.0.0.1", "-", "alice", "[31/Foo/2024:23:59:59", "+0000]",
                 "<GET", "/index.html", "HTTP/1.1>", "200", "1234">>,
     segs |-> <<<<W("10.0.0.1"), W("-"), W("alice")>>,
                <<W("GET"), PlainPath, Http>>,
                <<W("200"), W("1234")>>>>,
     subs |-> {}]

\* 10.0.0.3 [31/Jan/2024:23:59:59      (two tokens, no quote)
ShortLine ==
    [frag |-> InWindowFrag,
     parts |-> <<"10.0.0.3", "[31/Jan/2024:23:59:59">>,
     segs |-> <<<<W("10.0.0.3")>>>>,
     subs |-> {}]

\* 10.0.0.1 - carol [31/Jan/2024:23:59:59 +0000] "GET /index.html"     (seven tokens)
SevenLine ==
    [frag |-> InWindowFrag,
     parts |-> <<"10.0.0.1", "-", "carol", "[31/Jan/2024:23:59:59", "+0000]",
                 "<GET", "/index.html>">>,
     segs |-> <<<<W("10.0.0.1"), W("-"), W("carol")>>,
                <<W("GET"), PlainPath>>,
                <<>>>>,
     subs |-> {}]

Lines == {FullLine, EdgeLine, NoStampLine, BadMonthLine, ShortLine, SevenLine}

\* ------------------------------------------------------------------------
\* exporter.py helpers
\* ------------------------------------------------------------------------
\* LOG_PATTERN.search(line): the six groups of the first match, <<>> for none
LogPatternSearch(line) == line.frag

\* parse_line_time(line): tag "None" (no match), "ts" (a datetime, field t)
\* or "raise" (field exc: KeyError from MONTHS[mon], ValueError from datetime)
parse_line_time(line) ==
    LET m == LogPatternSearch(line) IN
    IF m = <<>>
    THEN [tag |-> "None", t |-> 0, exc |-> NoExc]
    ELSE IF m[2] \notin DOMAIN MONTHS
    THEN [tag |-> "raise", t |-> 0, exc |-> KeyErrorOf(m[2])]
    ELSE IF ~DateTimeOk(m[3], MONTHS[m[2]], m[1], m[4], m[5], m[6])
    THEN [tag |-> "raise", t |-> 0, exc |-> ValueErrorExc(<<"out of range">>)]
    ELSE [tag |-> "ts", exc |-> NoExc,
          t |-> DateTime(m[3], MONTHS[m[2]], m[1], m[4], m[5], m[6])]

\* (variant) the window test written with a strict comparison
Yields_Strict(ts, cutoff) == ts.tag = "ts" /\ ts.t > cutoff

\* iter_log_file's test of one line: `if ts and ts >= cutoff: yield line`
Yields(ts, cutoff) == ts.tag = "ts" /\ ts.t >= cutoff

\* len(parts) > 8 ? parts[8] : ""
StatusOf(parts) == IF Len(parts) > 8 THEN parts[9] ELSE ""

\* path.startswith("/" + prefix + "/"), path given as path.split("/")
StartsWithDir(path, prefix) == Len(path) >= 3 /\ path[1] = "" /\ path[2] = prefix

\* "/" + "/".join(path.split("/")[1:3]), given as its split on "/"
TwoSegments(path) == <<"">> \o SubSeq(path, 2, IF Len(path) < 3 THEN Len(path) ELSE 3)

\* f"{ts.hour:02d}": two decimal digits
HourKey(t) == <<HourOf(t) \div 10, HourOf(t) % 10>>

ZeroAcc ==
    [total |-> 0, by_user |-> EmptyCounter, by_endpoint |-> EmptyCounter,
     by_repo |-> EmptyCounter, by_service |-> EmptyCounter, by_ip |-> EmptyCounter,
     by_hour |-> EmptyCounter, by_status |-> EmptyCounter,
     custom_flags |-> EmptyCounter]

\* the try block: req = line.split('"')[1]; method, path, _ = req.split(); ...
\* every exception inside is swallowed, leaving the counters as they are then
CountRequest(a, line) ==
    IF Len(line.segs) < 2 THEN a
    ELSE IF Len(line.segs[2]) # 3 THEN a
    ELSE LET path == line.segs[2][2]
             a1 == [a EXCEPT !.by_endpoint = CInc(@, path)]
             a2 == IF StartsWithDir(path, "repository")
                   THEN [a1 EXCEPT !.by_repo = CInc(@, TwoSegments(path))]
                   ELSE a1
         IN  IF StartsWithDir(path, "service")
             THEN [a2 EXCEPT !.by_service = CInc(@, TwoSegments(path))]
             ELSE a2

\* for flag in flags: if flag in line: custom_flags[flag] += 1
RECURSIVE CountFlags(_, _, _)
CountFlags(c, line, flags) ==
    IF flags = <<>> THEN c
    ELSE CountFlags(IF Head(flags) \in line.subs THEN CInc(c, Head(flags)) ELSE c,
                    line, Tail(flags))

\* by_hour: parse the line again, count its hour when it has a timestamp
CountHour(a, line) ==
    LET ts == parse_line_time(line) IN
    IF ts.tag = "ts" THEN [a EXCEPT !.by_hour = CInc(@, HourKey(ts.t))] ELSE a

\* ip = parts[0]; user = parts[2]: IndexError when the token is missing
FieldsOk(parts) == Len(parts) >= 3

\* (variant) the loop body counting a status only when the line has one
Accumulate_DropAbsentStatus(a, line, flags) ==
    LET a0 == [a EXCEPT !.total = @ + 1] IN
    IF ~FieldsOk(line.parts)
    THEN [acc |-> a0, exc |-> IndexErrorExc]
    ELSE LET a1 == [a0 EXCEPT !.by_ip = CInc(@, line.parts[1]),
                              !.by_user = CInc(@, line.parts[3]),
                              !.by_status = IF StatusOf(line.parts) = "" THEN @
                                            ELSE CInc(@, StatusOf(line.parts))]
             a2 == CountHour(CountRequest(a1, line), line)
         IN  [acc |-> [a2 EXCEPT !.custom_flags = CountFlags(@, line, flags)],
              exc |-> NoExc]

\* the body of the loop over the yielded lines, on one yielded line: the
\* counters after it and the exception it raises (type "" for none)
Accumulate(a, line, flags) ==
    LET a0 == [a EXCEPT !.total = @ + 1] IN
    IF ~FieldsOk(line.parts)
    THEN [acc |-> a0, exc |-> IndexErrorExc]
    ELSE LET a1 == [a0 EXCEPT !.by_ip = CInc(@, line.parts[1]),
                              !.by_user = CInc(@, line.parts[3]),
                              !.by_status = CInc(@, StatusOf(line.parts))]
             a2 == CountHour(CountRequest(a1, line), line)
         IN  [acc |-> [a2 EXCEPT !.custom_flags = CountFlags(@, line, flags)],
              exc |-> NoExc]

\* one line of an open file through iter_log_file and the loop body
ScanLine(a, line, cutoff, flags) ==
    LET ts == parse_line_time(line) IN
    IF ts.tag = "raise" THEN [acc |-> a, exc |-> ts.exc]
    ELSE IF Yields(ts, cutoff) THEN Accumulate(a, line, flags)
    ELSE [acc |-> a, exc |-> NoExc]

\* ------------------------------------------------------------------------
\* Window strings (main.py's Query regex, export_metrics' parse)
\* ------------------------------------------------------------------------
Digits == <<"0", "1", "2", "3", "4", "5", "6", "7", "8", "9">>
IsDigit(ch) == \E i \in 1..10 : Digits[i] = ch
DigitValue(ch) == (CHOOSE i \in 1..10 : Digits[i] = ch) - 1

\* re.match(r"^\d+[hH]$", window)
WindowRegex(w) ==
    /\ Len(w) >= 2
    /\ \A i \in 1..(Len(w) - 1) : IsDigit(w[i])
    /\ w[Len(w)] \in {"h", "H"}

\* window.rstrip("h")
RECURSIVE RStripH(_)
RStripH(w) ==
    IF w # <<>> /\ w[Len(w)] = "h" THEN RStripH(SubSeq(w, 1, Len(w) - 1)) ELSE w

\* int(text): the decimal value, or ValueError
IntOk(text) == text # <<>> /\ \A i \in 1..Len(text) : IsDigit(text[i])

RECURSIVE IntOf(_)
IntOf(text) ==
    IF text = <<>> THEN 0
    ELSE 10 * IntOf(SubSeq(text, 1, Len(text) - 1)) + DigitValue(text[Len(text)])

Windows == {<<"0", "h">>, <<"1", "h">>, <<"1", "H">>, <<"2", "5", "h">>, <<"1">>}

\* ------------------------------------------------------------------------
\* Files
\* ------------------------------------------------------------------------
Suffixes == <<".log.gz", ".log">>
Live == <<<<0, 0, 0>>, "request.log">>          \* LOG_DIR / "request.log"
Archive(d, suffix) == <<d, suffix>>            \* LOG_DIR / f"request-{d}{suffix}"

LogDates == {<<2024, 1, 31>>, <<2024, 2, 1>>}
FileNames == {Archive(d, Suffixes[i]) : d \in LogDates, i \in 1..2} \cup {Live}

Missing == [exists |-> FALSE, lines |-> <<>>]

\* the instants datetime.now() returns: 2024-02-01 00:30:00 and half a second later
Nows == {DateTime(2024, 2, 1, 0, 30, 0), DateTime(2024, 2, 1, 0, 30, 0) + 1}

\* /opt/scripts/flags.txt: absent, or its lines as (text, surrounding blanks)
FlagFiles == {<<>>, <<[text |-> "SQLI_ATTEMPT", pad |-> TRUE],
                      [text |-> "", pad |-> TRUE]>>}

\* [l.strip() for l in flag_file.read_text().splitlines() if l.strip()]
RECURSIVE LoadFlags(_)
LoadFlags(ff) ==
    IF ff = <<>> THEN <<>>
    ELSE (IF Head(ff).text # "" THEN <<Head(ff).text>> ELSE <<>>) \o LoadFlags(Tail(ff))

\* ------------------------------------------------------------------------
\* collect_metrics: window, dates, candidates
\* ------------------------------------------------------------------------
\* cutoff = datetime.now() - timedelta(hours=window_hours)
CutoffOf(t, window_hours) == t - window_hours * HourTicks

\* (variant) only the day of the cutoff is scanned
DatesToScan_CutoffDayOnly(c, t) == {StrfDate(DateOf(c))}

\* day = cutoff.date(); while day <= datetime.now().date(): dates.add(...)
DatesToScan(c, t) == {StrfDate(n) : n \in DateOf(c)..DateOf(t)}

\* (variant) the plain archive tried before the compressed one
SuffixOrder_LogFirst == <<Suffixes[2], Suffixes[1]>>

\* for suffix in [".log.gz", ".log"]
SuffixOrder == Suffixes

\* for d in sorted(dates): for suffix in ...: the candidate paths in order
RECURSIVE CandidatesOf(_)
CandidatesOf(ds) ==
    IF ds = <<>> THEN <<>>
    ELSE <<Archive(Head(ds), SuffixOrder[1]), Archive(Head(ds), SuffixOrder[2])>>
             \o CandidatesOf(Tail(ds))

Candidates(c, t) == CandidatesOf(SortedDates(DatesToScan(c, t)))

\* p.exists()
Exists(dir, p) == p \in DOMAIN dir /\ dir[p].exists

\* ------------------------------------------------------------------------
\* export_metrics: the exposed series
\* ------------------------------------------------------------------------
TopN == 50
DayHours == 24

\* (variant) the first n entries in insertion order
most_common_FirstN(c, n) == SubSeq(c, 1, IF Len(c) < n THEN Len(c) ELSE n)

\* Counter.most_common(n): heapq.nlargest(n, items, key=count), that is the
\* counts descending, equal counts in insertion order, cut at n
RECURSIVE most_common(_, _)
most_common(c, n) ==
    IF n = 0 \/ c = <<>> THEN <<>>
    ELSE LET i == CHOOSE j \in 1..Len(c) :
                    /\ \A k \in 1..Len(c) : c[k][2] <= c[j][2]
                    /\ \A k \in 1..(j - 1) : c[k][2] < c[j][2]
             rest == [k \in 1..(Len(c) - 1) |-> IF k < i THEN c[k] ELSE c[k + 1]]
         IN  <<c[i]>> \o most_common(rest, n - 1)

\* Counter.items()
Items(c) == c

NoPayload ==
    [requests_total |-> 0, requests_total_last_24h |-> 0, by_user |-> <<>>,
     by_endpoint |-> <<>>, by_repository |-> <<>>, by_service |-> <<>>,
     by_source_ip |-> <<>>, by_hour |-> <<>>, status_code |-> <<>>,
     custom_flag_matches |-> <<>>]

\* the registry export_metrics fills, as generate_latest renders it
Render(data, data24) ==
    [requests_total |-> data.total,
     requests_total_last_24h |-> data24.total,
     by_user |-> Items(data.by_user),
     by_endpoint |-> most_common(data.by_endpoint, TopN),
     by_repository |-> Items(data.by_repo),
     by_service |-> Items(data.by_service),
     by_source_ip |-> Items(data.by_ip),
     by_hour |-> Items(data.by_hour),
     status_code |-> Items(data.by_status),
     custom_flag_matches |-> Items(data.custom_flags)]

\* ------------------------------------------------------------------------
\* /metrics responses
\* ------------------------------------------------------------------------
NoResponse == [status |-> 0, kind |-> "", text |-> <<>>, metrics |-> NoPayload]
MetricsResponse(payload) ==
    [status |-> 200, kind |-> "metrics", text |-> <<>>, metrics |-> payload]
TextResponse(text) ==
    [status |-> 200, kind |-> "text", text |-> text, metrics |-> NoPayload]
ValidationResponse ==
    [status |-> 422, kind |-> "validation", text |-> <<>>, metrics |-> NoPayload]

\* (variant) except ValueError
Caught_ValueErrorOnly(e) == e.type = "ValueError"

\* except Exception as e: return Response(str(e), ...)
Caught(e) == TRUE
CatchResponse(e) == TextResponse(e.msg)

\* ------------------------------------------------------------------------
\* State
\* ------------------------------------------------------------------------
VARIABLES
    dir,        \* the log directory: file name -> [exists, lines]
    flagFile,   \* the lines of /opt/scripts/flags.txt (<<>> when absent)
    window,     \* the window string of the request
    sh,         \* the sh parameter of the request
    now,        \* datetime.now() during the request
    caller,     \* who calls collect_metrics: "export" (export_metrics) or "pair"
    pair,       \* caller "pair": the two window lengths, collected in turn
    hours,      \* export_metrics' local `hours`, -1 before it is assigned
    pc,         \* control point
    window_hours, \* collect_metrics' argument
    cutoff,     \* collect_metrics' local
    flags,      \* collect_metrics' local: the loaded flag list
    queue,      \* the archive candidates not yet visited, in loop order
    cur,        \* the file open in iter_log_file: <<>> or <<name>>
    pos,        \* the index of the next line of the open file
    acc,        \* collect_metrics' counters
    scanned,    \* the files opened by the running collect_metrics call, in order
    res,        \* the results returned by collect_metrics so far
    exc,        \* the exception raised inside export_metrics / collect_metrics
    escaped,    \* the exception leaving the /metrics handler
    response    \* the handler's response

vars == <<dir, flagFile, window, sh, now, caller, pair, hours, pc, window_hours,
          cutoff, flags, queue, cur, pos, acc, scanned, res, exc, escaped, response>>

envVars == <<dir, flagFile>>
reqVars == <<window, sh, now, caller, pair>>
scanVars == <<window_hours, cutoff, flags, queue, cur, pos, acc, scanned>>

Init ==
    /\ dir = [f \in FileNames |-> Missing]
    /\ flagFile \in FlagFiles
    /\ window = <<>> /\ sh = FALSE /\ now = 0 /\ caller = "" /\ pair = <<>>
    /\ hours = -1
    /\ pc = "idle"
    /\ window_hours = 0 /\ cutoff = 0 /\ flags = <<>> /\ queue = <<>>
    /\ cur = <<>> /\ pos = 0 /\ acc = ZeroAcc /\ scanned = <<>>
    /\ res = <<>> /\ exc = NoExc /\ escaped = NoExc /\ response = NoResponse

\* ------------------------------------------------------------------------
\* The log writer (the environment, before the request)
\* ------------------------------------------------------------------------
RECURSIVE SumLens(_, _)
SumLens(d, S) ==
    IF S = {} THEN 0
    ELSE LET f == CHOOSE x \in S : TRUE IN Len(d[f].lines) + SumLens(d, S \ {f})

TotalLines(d) == SumLens(d, DOMAIN d)
\* the writer appends a line to a log file, creating the file with its first line
WriteLog(f, line) ==
    /\ pc = "idle"
    /\ TotalLines(dir) < MaxLines
    /\ dir' = [dir EXCEPT ![f] = [exists |-> TRUE, lines |-> Append(@.lines, line)]]
    /\ UNCHANGED <<flagFile, reqVars, hours, pc, scanVars, res, exc, escaped, response>>

\* ------------------------------------------------------------------------
\* main.py: GET /metrics
\* ------------------------------------------------------------------------
\* Query(..., regex=...) refuses the request before the handler runs
Reject(w) ==
    /\ pc = "idle"
    /\ ~WindowRegex(w)
    /\ window' = w
    /\ response' = ValidationResponse
    /\ pc' = "done"
    /\ UNCHANGED <<envVars, sh, now, caller, pair, hours, scanVars, res, exc, escaped>>

\* if sh: the script's stdout, its stderr on a non-zero exit; an exception of
\* Popen / communicate(timeout=60) leaves the handler
MetricsShell(w, outcome) ==
    /\ pc = "idle"
    /\ WindowRegex(w)
    /\ window' = w /\ sh' = TRUE /\ caller' = "shell"
    /\ pc' = "done"
    /\ CASE outcome = "stdout" ->
              response' = TextResponse(<<"stdout">>) /\ escaped' = escaped
         [] outcome = "stderr" ->
              response' = TextResponse(<<"stderr">>) /\ escaped' = escaped
         [] OTHER ->
              /\ escaped' = [type |-> "TimeoutExpired", msg |-> <<"timed out">>]
              /\ response' = response
    /\ UNCHANGED <<envVars, now, pair, hours, scanVars, res, exc>>

\* else: export_metrics(window), up to its first call of collect_metrics
MetricsExport(w, t) ==
    /\ pc = "idle"
    /\ WindowRegex(w)
    /\ window' = w /\ sh' = FALSE /\ caller' = "export" /\ now' = t
    /\ IF IntOk(RStripH(w))
       THEN /\ hours' = IntOf(RStripH(w))
            /\ window_hours' = IntOf(RStripH(w))
            /\ pc' = "collect"
            /\ exc' = exc
       ELSE /\ exc' = ValueErrorExc(<<"invalid literal for int() with base 10">> \o RStripH(w))
            /\ pc' = "raised"
            /\ UNCHANGED <<hours, window_hours>>
    /\ UNCHANGED <<envVars, pair, cutoff, flags, queue, cur, pos, acc, scanned,
                   res, escaped, response>>

\* ------------------------------------------------------------------------
\* collect_metrics(window_hours)
\* ------------------------------------------------------------------------
\* up to the first loop: cutoff, the dates, fresh counters, the flag list
CollectStart ==
    /\ pc = "collect"
    /\ cutoff' = CutoffOf(now, window_hours)
    /\ queue' = Candidates(CutoffOf(now, window_hours), now)
    /\ flags' = LoadFlags(flagFile)
    /\ acc' = ZeroAcc
    /\ cur' = <<>> /\ pos' = 0 /\ scanned' = <<>>
    /\ pc' = "archives"
    /\ UNCHANGED <<envVars, reqVars, hours, window_hours, res, exc, escaped, response>>

\* the open file is exhausted, or no file is open
AtEnd == IF cur = <<>> THEN TRUE ELSE pos > Len(dir[cur[1]].lines)

\* `if p.exists()` over the candidates: the missing ones at the front are passed
RECURSIVE SkipMissing(_, _)
SkipMissing(d, q) ==
    IF q = <<>> THEN <<>>
    ELSE IF Exists(d, Head(q)) THEN q ELSE SkipMissing(d, Tail(q))

\* the archive loop moves on to its next existing candidate and opens it
NextArchive ==
    /\ pc = "archives"
    /\ AtEnd
    /\ SkipMissing(dir, queue) # <<>>
    /\ LET q == SkipMissing(dir, queue) IN
         /\ queue' = Tail(q)
         /\ cur' = <<Head(q)>> /\ pos' = 1 /\ scanned' = Append(scanned, Head(q))
    /\ UNCHANGED <<envVars, reqVars, hours, pc, window_hours, cutoff, flags, acc,
                   res, exc, escaped, response>>

\* one line of the open file: filtered, counted, or raising
ReadLine ==
    /\ cur # <<>>
    /\ pos <= Len(dir[cur[1]].lines)
    /\ LET r == ScanLine(acc, dir[cur[1]].lines[pos], cutoff, flags) IN
         /\ acc' = r.acc
         /\ IF r.exc = NoExc
            THEN pos' = pos + 1 /\ pc' = pc /\ exc' = exc
            ELSE pos' = pos /\ pc' = "raised" /\ exc' = r.exc
    /\ UNCHANGED <<envVars, reqVars, hours, window_hours, cutoff, flags, queue, cur,
                   scanned, res, escaped, response>>

ReadArchiveLine == pc = "archives" /\ ReadLine

\* after the archives: live = LOG_DIR / "request.log", opened when it exists
OpenLive ==
    /\ pc = "archives"
    /\ AtEnd
    /\ SkipMissing(dir, queue) = <<>>
    /\ pc' = "live"
    /\ queue' = <<>>
    /\ IF Exists(dir, Live)
       THEN cur' = <<Live>> /\ pos' = 1 /\ scanned' = Append(scanned, Live)
       ELSE cur' = <<>> /\ pos' = 0 /\ scanned' = scanned
    /\ UNCHANGED <<envVars, reqVars, hours, window_hours, cutoff, flags, acc,
                   res, exc, escaped, response>>

ReadLiveLine == pc = "live" /\ ReadLine

\* return {...}
CollectReturn ==
    /\ pc = "live"
    /\ AtEnd
    /\ res' = Append(res, acc)
    /\ cur' = <<>> /\ pos' = 0
    /\ pc' = "returned"
    /\ UNCHANGED <<envVars, reqVars, hours, window_hours, cutoff, flags, queue, acc,
                   scanned, exc, escaped, response>>

\* ------------------------------------------------------------------------
\* export_metrics after its first collect_metrics call
\* ------------------------------------------------------------------------
\* data24 = collect_metrics(24)
ExportCollect24 ==
    /\ pc = "returned" /\ caller = "export" /\ Len(res) = 1
    /\ window_hours' = DayHours
    /\ pc' = "collect"
    /\ UNCHANGED <<envVars, reqVars, hours, cutoff, flags, queue, cur, pos, acc,
                   scanned, res, exc, escaped, response>>

\* the gauges, generate_latest, and the handler's Response(metrics_output)
ExportRender ==
    /\ pc = "returned" /\ caller = "export" /\ Len(res) = 2
    /\ response' = MetricsResponse(Render(res[1], res[2]))
    /\ pc' = "done"
    /\ UNCHANGED <<envVars, reqVars, hours, scanVars, res, exc, escaped>>

\* the handler's except clause
MetricsCatch ==
    /\ pc = "raised" /\ caller = "export"
    /\ IF Caught(exc)
       THEN response' = CatchResponse(exc) /\ escaped' = escaped
       ELSE response' = response /\ escaped' = exc
    /\ pc' = "done"
    /\ UNCHANGED <<envVars, reqVars, hours, scanVars, res, exc>>

Next ==
    \/ \E f \in FileNames, line \in Lines : WriteLog(f, line)
    \/ \E w \in Windows : Reject(w)
    \/ \E w \in Windows, o \in {"stdout", "stderr", "raise"} : MetricsShell(w, o)
    \/ \E w \in Windows, t \in Nows : MetricsExport(w, t)
    \/ CollectStart
    \/ NextArchive
    \/ ReadArchiveLine
    \/ OpenLive
    \/ ReadLiveLine
    \/ CollectReturn
    \/ ExportCollect24
    \/ ExportRender
    \/ MetricsCatch

Spec == Init /\ [][Next]_vars

\* ------------------------------------------------------------------------
\* Two calls of collect_metrics on one log directory at one clock reading
\* ------------------------------------------------------------------------
PairHours == {0, 1, DayHours, DayHours + 1}

\* collect_metrics(w1), to be followed by collect_metrics(w2)
PairStart(w1, w2, t) ==
    /\ pc = "idle"
    /\ w1 < w2
    /\ caller' = "pair" /\ pair' = <<w1, w2>> /\ now' = t
    /\ window_hours' = w1
    /\ pc' = "collect"
    /\ UNCHANGED <<envVars, window, sh, hours, cutoff, flags, queue, cur, pos, acc,
                   scanned, res, exc, escaped, response>>

PairSecond ==
    /\ pc = "returned" /\ caller = "pair" /\ Len(res) = 1
    /\ window_hours' = pair[2]
    /\ pc' = "collect"
    /\ UNCHANGED <<envVars, reqVars, hours, cutoff, flags, queue, cur, pos, acc,
                   scanned, res, exc, escaped, response>>

PairDone ==
    /\ pc = "returned" /\ caller = "pair" /\ Len(res) = 2
    /\ pc' = "done"
    /\ UNCHANGED <<envVars, reqVars, hours, scanVars, res, exc, escaped, response>>

NextWiden ==
    \/ \E f \in FileNames, line \in Lines : WriteLog(f, line)
    \/ \E w1 \in PairHours, w2 \in PairHours, t \in Nows : PairStart(w1, w2, t)
    \/ CollectStart
    \/ NextArchive
    \/ ReadArchiveLine
    \/ OpenLive
    \/ ReadLiveLine
    \/ CollectReturn
    \/ PairSecond
    \/ PairDone

SpecWiden == Init /\ [][NextWiden]_vars

\* ------------------------------------------------------------------------
\* export_metrics on aggregation results of any size
\* ------------------------------------------------------------------------
MaxEndpoints == 52   \* distinct keys of a breakdown
MaxStride == 2       \* the counts of a breakdown are 1 + (stride * i) % modulus
MaxModulus == 3

\* a Counter of n keys in insertion order
FamilyCounter(tag, n, stride, modulus) ==
    [i \in 1..n |-> <<<<"", tag, i>>, 1 + ((stride * i) % modulus)>>]

FamilyData(n, stride, modulus) ==
    [total |-> CSum(FamilyCounter("ip", n, stride, modulus)),
     by_user |-> FamilyCounter("user", n, stride, modulus),
     by_endpoint |-> FamilyCounter("path", n, stride, modulus),
     by_repo |-> FamilyCounter("repository", n \div 2, stride, modulus),
     by_service |-> FamilyCounter("service", n \div 2, stride, modulus),
     by_ip |-> FamilyCounter("ip", n, stride, modulus),
     by_hour |-> FamilyCounter("hour", 1, stride, modulus),
     by_status |-> FamilyCounter("status", 2, stride, modulus),
     custom_flags |-> FamilyCounter("flag", 1, stride, modulus)]

InitExpose ==
    /\ dir = [f \in FileNames |-> Missing]
    /\ flagFile = <<>>
    /\ window = <<"1", "h">> /\ sh = FALSE /\ now \in Nows /\ caller = "export"
    /\ pair = <<>>
    /\ hours = 1
    /\ pc = "returned"
    /\ window_hours = DayHours /\ cutoff = CutoffOf(now, DayHours)
    /\ flags = <<>> /\ queue = <<>>
    /\ cur = <<>> /\ pos = 0 /\ scanned = <<>>
    /\ \E n \in 0..MaxEndpoints, a \in 1..MaxStride, m \in 1..MaxModulus :
         /\ res = <<FamilyData(n, a, m), FamilyData(n, a, m)>>
         /\ acc = FamilyData(n, a, m)
    /\ exc = NoExc /\ escaped = NoExc /\ response = NoResponse

NextExpose == ExportRender

SpecExpose == InitExpose /\ [][NextExpose]_vars

\* ------------------------------------------------------------------------
\* Properties
\* ------------------------------------------------------------------------
\* the line the open file is about to hand to parse_line_time, when there is one
Reading == pc \in {"archives", "live"} /\ cur # <<>> /\ ~AtEnd
AtLine == dir[cur[1]].lines[pos]

\* the cutoff of the running (or last) collect_metrics call, from its arguments
WindowCutoff == now - window_hours * HourTicks

\* a line whose extracted timestamp is present and at or after c
InWindow(line, c) ==
    LET ts == parse_line_time(line) IN ts.tag = "ts" /\ ts.t >= c

\* a line with no timestamp fragment, or one whose month is not Jan..Dec
MalformedStamp(line) ==
    IF line.frag = <<>> THEN TRUE
    ELSE \A i \in 1..12 : MonthNames[i] # line.frag[2]

RECURSIVE CountInWindow(_, _)
CountInWindow(ls, c) ==
    IF ls = <<>> THEN 0
    ELSE (IF InWindow(Head(ls), c) THEN 1 ELSE 0) + CountInWindow(Tail(ls), c)

\* the existing dated archives of the days lo..hi, days ascending, .log.gz
\* before .log
RECURSIVE ArchivesInOrder(_, _, _)
ArchivesInOrder(d, lo, hi) ==
    IF lo > hi THEN <<>>
    ELSE SelectSeq(<<<<StrfDate(lo), ".log.gz">>, <<StrfDate(lo), ".log">>>>,
                   LAMBDA f : f \in DOMAIN d /\ d[f].exists)
           \o ArchivesInOrder(d, lo + 1, hi)

\* every file a call with cutoff c at time t has to scan, in the stated order
FilesInOrder(d, c, t) ==
    ArchivesInOrder(d, DateOf(c), DateOf(t))
        \o (IF d[Live].exists THEN <<Live>> ELSE <<>>)

RECURSIVE CountOver(_, _, _)
CountOver(d, fsq, c) ==
    IF fsq = <<>> THEN 0
    ELSE CountInWindow(d[Head(fsq)].lines, c) + CountOver(d, Tail(fsq), c)

IsPrefix(a, b) == Len(a) <= Len(b) /\ SubSeq(b, 1, Len(a)) = a

\* a call of collect_metrics made by export_metrics has ended
CallEnded == caller = "export" /\ hours >= 0 /\ pc \in {"returned", "raised"}

\* C1: every call of collect_metrics returns a result whose total is the
\* number of lines, over all scanned files, whose timestamp is present and
\* >= cutoff, whatever the rest of the line looks like.  Stated here for the
\* calls in which no timestamp lookup failed.
C1_TotalCountsEveryInWindowLine ==
    (CallEnded /\ exc.type # "KeyError") =>
        /\ pc = "returned"
        /\ res[Len(res)].total =
             CountOver(dir, FilesInOrder(dir, WindowCutoff, now), WindowCutoff)

\* C2: in every returned result the by_status, by_user and by_ip counts each
\* sum to total, and the by_endpoint counts sum to at most total.
C2_BreakdownSums ==
    \A i \in 1..Len(res) :
        /\ CSum(res[i].by_status) = res[i].total
        /\ CSum(res[i].by_user) = res[i].total
        /\ CSum(res[i].by_ip) = res[i].total
        /\ CSum(res[i].by_endpoint) <= res[i].total

C2_Witness ==
    \E i \in 1..Len(res) :
        /\ res[i].total >= 2
        /\ CSum(res[i].by_endpoint) < res[i].total
        /\ CSum(res[i].by_endpoint) > 0
        /\ CGet(res[i].by_status, "") > 0

\* C3: a line with no timestamp fragment or with an unknown month is dropped
\* and the scan goes on: no scan stops on such a line.
C3_MalformedStampNeverAborts ==
    ~(pc = "raised" /\ cur # <<>> /\ MalformedStamp(AtLine))

\* C4: cutoff is now - window; a line stamped strictly before cutoff changes
\* no counter, a line stamped exactly at cutoff is counted.
C4_CutoffBoundary ==
    /\ [](pc \in {"archives", "live"} => cutoff = WindowCutoff)
    /\ [][Reading =>
            LET ts == parse_line_time(AtLine) IN
              /\ (ts.tag = "ts" /\ ts.t < WindowCutoff) => (acc' = acc /\ pos' = pos + 1)
              /\ (ts.tag = "ts" /\ ts.t = WindowCutoff) => acc'.total = acc.total + 1
         ]_vars

\* a line stamped exactly at the cutoff has just been read, and was counted
C4_Witness ==
    /\ pc \in {"archives", "live"} /\ cur # <<>> /\ pos = 2
    /\ parse_line_time(dir[cur[1]].lines[1]).tag = "ts"
    /\ parse_line_time(dir[cur[1]].lines[1]).t = WindowCutoff
    /\ acc.total = 1 /\ CSum(acc.by_ip) = 1

\* C5: the files are opened in the order dates ascending, .log.gz before .log,
\* request.log last; exactly the existing candidates of the days
\* cutoff.date()..now.date() are opened by a call that returns; a file is left
\* only at its end.
C5_ScanOrder ==
    /\ [](pc \in {"archives", "live", "returned"} =>
            /\ IsPrefix(scanned, FilesInOrder(dir, WindowCutoff, now))
            /\ pc \in {"live", "returned"} =>
                 scanned = FilesInOrder(dir, WindowCutoff, now))
    /\ [][(cur # <<>> /\ cur' # cur) => AtEnd]_vars

C5_Witness ==
    /\ pc = "returned"
    /\ Len(scanned) = 2
    /\ scanned[1][1] = <<2024, 1, 31>>
    /\ scanned[2][1] = <<2024, 2, 1>>

\* C6: every window the route accepts is parsed into the hour count its
\* digits give, and collect_metrics runs with it.
C6_AcceptedWindowParsed ==
    caller = "export" =>
        hours = IntOf(SubSeq(window, 1, Len(window) - 1))

\* C7: an exception raised anywhere in export_metrics is caught by the
\* handler, which answers with the exception's message; none leaves it.
C7_BoundaryCatches ==
    caller = "export" =>
        /\ escaped = NoExc
        /\ (pc = "done" /\ exc.type # "") =>
              (response.status = 200 /\ response.kind = "text"
                 /\ response.text = exc.msg)
        /\ (pc = "done" /\ exc.type = "") => response.kind = "metrics"

C7_Witness ==
    /\ caller = "export" /\ pc = "done"
    /\ exc.type = "KeyError"
    /\ Len(res) = 1
    /\ response.text = exc.msg

\* C8: on the same files at the same time, a longer window never yields a
\* smaller total.
C8_MonotonicWidening ==
    (caller = "pair" /\ Len(res) = 2) => res[2].total >= res[1].total

C8_Witness ==
    /\ caller = "pair" /\ Len(res) = 2
    /\ res[1].total > 0
    /\ res[2].total > res[1].total

\* C9: at most 50 by_endpoint series are exposed, none left out counts more
\* than one exposed, and every other breakdown is exposed in full.
C9_TopEndpoints ==
    (pc = "done" /\ response.kind = "metrics") =>
        LET shown == response.metrics.by_endpoint
            all == res[1].by_endpoint
            m == response.metrics
        IN  /\ Len(shown) <= 50
            /\ Len(shown) = (IF Len(all) < 50 THEN Len(all) ELSE 50)
            /\ \A i \in 1..Len(shown) : \E j \in 1..Len(all) : all[j] = shown[i]
            /\ \A i, j \in 1..Len(shown) : shown[i][1] = shown[j][1] => i = j
            /\ \A j \in 1..Len(all) :
                 (\A i \in 1..Len(shown) : shown[i][1] # all[j][1]) =>
                     \A i \in 1..Len(shown) : all[j][2] <= shown[i][2]
            /\ m.by_user = res[1].by_user
            /\ m.by_repository = res[1].by_repo
            /\ m.by_service = res[1].by_service
            /\ m.by_source_ip = res[1].by_ip
            /\ m.by_hour = res[1].by_hour
            /\ m.status_code = res[1].by_status
            /\ m.custom_flag_matches = res[1].custom_flags

C9_Witness ==
    /\ pc = "done" /\ response.kind = "metrics"
    /\ Len(res[1].by_endpoint) > 50
    /\ Len(response.metrics.by_endpoint) = 50
    /\ Len(response.metrics.by_source_ip) > 50
    /\ \E j \in 1..Len(res[1].by_endpoint) : \E i \in 1..50 :
         res[1].by_endpoint[j][2] < response.metrics.by_endpoint[i][2]

\* C10: a line in the window with fewer than 9 tokens, however few, does not
\* fail: no scan stops on such a line.
C10_ShortLineNeverFails ==
    (pc = "raised" /\ cur # <<>>) =>
        ~(InWindow(AtLine, WindowCutoff) /\ Len(AtLine.parts) < 9)

====
